---- MODULE Spec2Model ----
(***************************************************************************)
(* Shopify -> xwanai SSO: the token validator (utils/shopify_sso.py) and   *)
(* the session manager (utils/auth.py, app/middleware/auth.py).            *)
(*                                                                         *)
(* Bytes are integers 0..255.  A transport token is a sequence of base64   *)
(* characters: 0..63 are the sextets of the URL-safe alphabet, PAD is '=', *)
(* JUNK is an ASCII character outside the alphabet.  Time is in whole      *)
(* seconds.  SHA-256, HMAC-SHA256 and AES are library primitives; they are *)
(* modelled by small keyed byte functions with the same interface, the     *)
(* same lengths and the same failure cases (see each definition).          *)
(***************************************************************************)
EXTENDS Integers, Sequences, FiniteSets, TLC

\* ------------------------------------------------------------------ bytes

BASE64_PAD == 64
JUNK == 65

TOKEN_EXPIRY_MINUTES == 15
SIG_LEN == 32
IV_LEN == 16
KEY_LEN == 16
BLOCK == 16

\* The value every failed library call yields: no byte string contains -1.
Raised == <<-1>>

RECURSIVE SumSeq(_)
SumSeq(s) == IF s = <<>> THEN 0 ELSE Head(s) + SumSeq(Tail(s))

\* data[-n:]
LastN(data, n) ==
    IF Len(data) <= n THEN data ELSE SubSeq(data, Len(data) - n + 1, Len(data))

\* data[:-n]
DropLastN(data, n) ==
    IF Len(data) <= n THEN <<>> ELSE SubSeq(data, 1, Len(data) - n)

\* data[:n]
FirstN(data, n) == IF Len(data) <= n THEN data ELSE SubSeq(data, 1, n)

\* data[n:]
FromN(data, n) == IF Len(data) <= n THEN <<>> ELSE SubSeq(data, n + 1, Len(data))

\* ----------------------------------------------------------------- base64

\* binascii.a2b_base64 in its default (non-strict) mode, which is what
\* base64.urlsafe_b64decode calls.  Characters outside the alphabet are
\* skipped.  quad_pos is the number of sextets read so far mod 4; a '='
\* read at quad_pos >= 2 counts as a pad, and once quad_pos plus the pads
\* since the last sextet reach 4 the rest of the input is ignored.  Input
\* that ends inside a quad without such a pad sequence raises
\* binascii.Error.
IsSextet(c) == c < 64

SextetsBefore(s, i) == Cardinality({ j \in 1..(i - 1) : IsSextet(s[j]) })

PadsUpTo(s, i) ==
    Cardinality({ j \in 1..i :
                    /\ s[j] = BASE64_PAD
                    /\ \A k \in j..i : ~IsSextet(s[k]) })

EndsInput(s, i) ==
    /\ s[i] = BASE64_PAD
    /\ SextetsBefore(s, i) % 4 >= 2
    /\ (SextetsBefore(s, i) % 4) + PadsUpTo(s, i) >= 4

a2b_base64(s) ==
    LET stops == { i \in 1..Len(s) : EndsInput(s, i) }
        stop  == IF stops = {} THEN Len(s) + 1
                 ELSE CHOOSE i \in stops : \A j \in stops : i <= j
        q     == SelectSeq(SubSeq(s, 1, stop - 1), IsSextet)
        rem   == Len(q) % 4
        n     == 3 * (Len(q) \div 4) + (IF rem = 0 THEN 0 ELSE rem - 1)
    IN  IF stops = {} /\ rem # 0
        THEN Raised
        ELSE [b \in 1..n |->
                LET g == 4 * ((b - 1) \div 3) IN
                CASE (b - 1) % 3 = 0 -> q[g + 1] * 4 + q[g + 2] \div 16
                  [] (b - 1) % 3 = 1 -> (q[g + 2] % 16) * 16 + q[g + 3] \div 4
                  [] OTHER           -> (q[g + 3] % 4) * 64 + q[g + 4]]

urlsafe_b64decode(s) == a2b_base64(s)

\* base64.urlsafe_b64encode: three bytes to four sextets, '=' padding.
urlsafe_b64encode(data) ==
    LET n == Len(data)
        byte(k) == IF k <= n THEN data[k] ELSE 0
    IN  [c \in 1..(4 * ((n + 2) \div 3)) |->
            LET g == 3 * ((c - 1) \div 4) IN
            CASE (c - 1) % 4 = 0 -> byte(g + 1) \div 4
              [] (c - 1) % 4 = 1 -> (byte(g + 1) % 4) * 16 + byte(g + 2) \div 16
              [] (c - 1) % 4 = 2 ->
                    IF g + 2 > n THEN BASE64_PAD
                    ELSE (byte(g + 2) % 16) * 4 + byte(g + 3) \div 64
              [] OTHER ->
                    IF g + 3 > n THEN BASE64_PAD ELSE byte(g + 3) % 64]

\* ----------------------------------------------------------------- crypto

\* hashlib.sha256(secret).digest(): 32 bytes determined by every byte of the
\* secret and its position.
sha256(s) ==
    LET w == SumSeq([j \in 1..Len(s) |-> j * s[j]])
    IN  [i \in 1..32 |-> (17 * i + 3 * w + Len(s)) % 256]

\* hmac.new(key, msg, sha256).digest(): 32 bytes.  Byte i of the tag depends
\* on the key, on the length of msg and on every msg byte at a position
\* congruent to i mod 32, so that changing one byte of msg changes the tag
\* (the second-preimage resistance the code relies on, for single edits).
hmac_sha256(key, msg) ==
    [i \in 1..SIG_LEN |->
        ( key[((i - 1) % Len(key)) + 1]
        + Len(msg)
        + SumSeq([j \in 1..((Len(msg) + SIG_LEN - i) \div SIG_LEN) |->
                     msg[i + (j - 1) * SIG_LEN]]) ) % 256]

\* hmac.compare_digest(a, b)
compare_digest(a, b) == a = b

\* Cipher(AES(key), CBC(iv)).decryptor(): block j of the plaintext is the
\* block decryption of ciphertext block j combined with ciphertext block
\* j-1 (the IV for the first).  ValueError for an IV that is not one block
\* long or a ciphertext that is not a whole number of blocks.
aes_cbc_decrypt(key, iv, ciphertext) ==
    IF Len(iv) # IV_LEN \/ Len(ciphertext) % BLOCK # 0
    THEN Raised
    ELSE [p \in 1..Len(ciphertext) |->
            LET prev == IF p <= BLOCK THEN iv[p] ELSE ciphertext[p - BLOCK]
                k    == key[((p - 1) % BLOCK) + 1]
            IN  (ciphertext[p] + 512 - k - prev) % 256]

\* padding.PKCS7(128).unpadder(): ValueError unless the data is a positive
\* whole number of blocks ending in n bytes of value n, 1 <= n <= 16.
pkcs7_unpad(data) ==
    IF Len(data) = 0 \/ Len(data) % BLOCK # 0
    THEN Raised
    ELSE LET n == data[Len(data)] IN
         IF n < 1 \/ n > BLOCK
            \/ \E q \in (Len(data) - n + 1)..Len(data) : data[q] # n
         THEN Raised
         ELSE DropLastN(data, n)

\* ------------------------------------------------------------------- json

\* The payload is a flat JSON object.  Its text is modelled with one byte
\* per token: an opening brace, (key, value) byte pairs, a closing brace.
\* Key bytes and value bytes stand for the interned strings below.
LBRACE == 123
RBRACE == 125
LBRACKET == 91
RBRACKET == 93

KeyNames ==
    << "email", "createdAt", "created_at", "firstName", "first_name",
       "lastName", "last_name", "shopifyCustomerId", "shopify_customer_id" >>

KeyCode(name) == CHOOSE c \in 1..Len(KeyNames) : KeyNames[c] = name

\* Values: JSON null, the empty string, a number, a string that is no
\* timestamp, plain strings (emails, names, ids), and from TS_BASE on the
\* ISO-8601 timestamp strings of TsStrings.
V_NULL == 0
V_EMPTY == 1
V_NUMBER == 2
V_TEXT == 3
V_ALICE == 4
V_BOB == 5
V_NAME == 6
V_CUSTID == 7
TS_BASE == 32

\* The instant the model's tokens are minted at, in seconds.
T0 == 10000
\* How far ahead of T0 a post-dated token is stamped.
FutureSkew == 60

\* An ISO-8601 string: the wall-clock reading it spells and its zone suffix
\* ("" for none).
TsStrings ==
    << [wall |-> T0,              zone |-> "Z"],
       [wall |-> T0,              zone |-> "+00:00"],
       [wall |-> T0,              zone |-> ""],
       [wall |-> T0 + 3600,       zone |-> "+01:00"],
       [wall |-> T0 - 3600,       zone |-> "-01:00"],
       [wall |-> T0 + FutureSkew, zone |-> "Z"],
       [wall |-> T0 - 3600 + FutureSkew, zone |-> "-01:00"] >>

TsCode(wall, zone) ==
    TS_BASE + (CHOOSE i \in 1..Len(TsStrings) :
                   TsStrings[i] = [wall |-> wall, zone |-> zone])

IsTimestampValue(v) == v > TS_BASE /\ v <= TS_BASE + Len(TsStrings)

\* Python truthiness of a decoded value: None and "" are falsy.
Truthy(v) == v # V_NULL /\ v # V_EMPTY

\* The result of a call that raised, for json.loads and what follows it.
JsonError == [kind |-> "error", d |-> <<>>]

\* json.loads(plaintext.decode("utf-8")): UnicodeDecodeError for a byte
\* that is not ASCII here, JSONDecodeError for text that is not JSON; "[]"
\* is JSON but no object; in an object a repeated key keeps its last value.
json_loads(plaintext) ==
    IF plaintext = Raised \/ \E i \in 1..Len(plaintext) : plaintext[i] >= 128
    THEN JsonError
    ELSE IF plaintext = <<LBRACKET, RBRACKET>>
    THEN [kind |-> "list", d |-> <<>>]
    ELSE IF Len(plaintext) < 2 \/ Len(plaintext) % 2 # 0
            \/ plaintext[1] # LBRACE \/ plaintext[Len(plaintext)] # RBRACE
            \/ \E i \in 1..((Len(plaintext) - 2) \div 2) :
                   plaintext[2 * i] \notin 1..Len(KeyNames)
    THEN JsonError
    ELSE LET n    == (Len(plaintext) - 2) \div 2
             keys == { KeyNames[plaintext[2 * i]] : i \in 1..n }
             last(k) == CHOOSE i \in 1..n :
                           /\ KeyNames[plaintext[2 * i]] = k
                           /\ \A j \in (i + 1)..n : KeyNames[plaintext[2 * j]] # k
         IN  [kind |-> "dict",
              d    |-> [k \in keys |-> plaintext[2 * last(k) + 1]]]

\* json.dumps of a list of <<key name, value>> pairs.
RECURSIVE json_pairs(_)
json_pairs(pairs) ==
    IF pairs = <<>> THEN <<>>
    ELSE <<KeyCode(Head(pairs)[1]), Head(pairs)[2]>> \o json_pairs(Tail(pairs))

json_dumps(pairs) == <<LBRACE>> \o json_pairs(pairs) \o <<RBRACE>>

\* dict.get(key): None when the key is absent.
DictGet(d, key) == IF key \in DOMAIN d THEN d[key] ELSE V_NULL

\* ------------------------------------------------------------- timestamps

\* str.replace('Z', '+00:00') on a timestamp string.
ReplaceZ(ts) == IF ts.zone = "Z" THEN [ts EXCEPT !.zone = "+00:00"] ELSE ts

ZoneSeconds(zone) ==
    CASE zone = "+00:00" -> 0
      [] zone = "+01:00" -> 3600
      [] zone = "-01:00" -> 0 - 3600
      [] OTHER -> 0

\* datetime.fromisoformat: the wall reading with the zone's offset as
\* tzinfo, naive when there is no zone; ValueError for a "Z" suffix (which
\* the parser rejects before Python 3.11, hence the replace in the code).
NoDatetime == [wall |-> 0, aware |-> FALSE, utcoffset |-> 0, valid |-> FALSE]

fromisoformat(ts) ==
    IF ts.zone = "Z" THEN NoDatetime
    ELSE [wall |-> ts.wall, aware |-> ts.zone # "",
          utcoffset |-> ZoneSeconds(ts.zone), valid |-> TRUE]

\* datetime.utcnow().replace(tzinfo=tz): the UTC wall reading, relabelled
\* with the offset of tz, not converted to it.
ReplaceTzinfo(wall, dt) ==
    [wall |-> wall, aware |-> dt.aware, utcoffset |-> dt.utcoffset, valid |-> TRUE]

\* (a - b).total_seconds(): aware datetimes are compared as instants,
\* naive ones by their wall readings.
total_seconds(a, b) ==
    IF a.aware
    THEN (a.wall - a.utcoffset) - (b.wall - b.utcoffset)
    ELSE a.wall - b.wall

\* ----------------------------------------------------------------- encode

\* PKCS#7 padding to the block size: n bytes of value n, 1 <= n <= 16.
pkcs7_pad(data) ==
    LET n == BLOCK - (Len(data) % BLOCK)
    IN  data \o [i \in 1..n |-> n]

\* AES-CBC encryption, the inverse of aes_cbc_decrypt, block by block.
RECURSIVE aes_cbc_encrypt(_, _, _)
aes_cbc_encrypt(key, iv, padded) ==
    IF padded = <<>> THEN <<>>
    ELSE LET c1 == [p \in 1..BLOCK |-> (padded[p] + key[p] + iv[p]) % 256]
         IN  c1 \o aes_cbc_encrypt(key, c1, FromN(padded, BLOCK))

\* The two subkeys: key_material[:16] and key_material[16:32].
derive_keys(secret) ==
    LET key_material == sha256(secret)
    IN  [encryption_key |-> SubSeq(key_material, 1, KEY_LEN),
         signature_key  |-> SubSeq(key_material, 17, 32)]

\* signed_payload || HMAC(signing_key, signed_payload)
sign(secret, signed_payload) ==
    signed_payload \o hmac_sha256(derive_keys(secret).signature_key, signed_payload)

\* IV || ciphertext || signature for a plaintext.
encode_bytes(secret, iv, plaintext) ==
    sign(secret,
         iv \o aes_cbc_encrypt(derive_keys(secret).encryption_key, iv,
                               pkcs7_pad(plaintext)))

\* ----------------------------------------------------------------- inputs

\* The shared secret the token issuer holds, another party's secret, and
\* the IV the model's tokens are minted with.
MintSecret == <<115, 51, 99>>
OtherSecret == <<120, 120>>
MintIV == [i \in 1..IV_LEN |-> (7 * i) % 256]

PayloadA == << <<"email", V_ALICE>>, <<"created_at", TsCode(T0, "Z")>> >>
PayloadB ==
    << <<"email", V_BOB>>, <<"createdAt", TsCode(T0, "+00:00")>>,
       <<"firstName", V_NAME>>, <<"first_name", V_NAME>>,
       <<"lastName", V_TEXT>>, <<"last_name", V_TEXT>>,
       <<"shopify_customer_id", V_CUSTID>> >>

\* Plaintexts an issuer holding the secret can seal: JSON objects with and
\* without the required fields, with every kind of timestamp, and texts
\* that are not JSON objects at all.
Plaintexts ==
    { json_dumps(PayloadA),
      json_dumps(PayloadB),
      json_dumps(<< <<"created_at", TsCode(T0, "Z")>> >>),
      json_dumps(<< <<"firstName", V_NAME>>, <<"createdAt", TsCode(T0, "+00:00")>> >>),
      json_dumps(<< <<"email", V_ALICE>> >>),
      json_dumps(<< <<"email", V_ALICE>>, <<"created_at", V_EMPTY>> >>),
      json_dumps(<< <<"email", V_ALICE>>, <<"createdAt", V_NULL>>,
                    <<"created_at", TsCode(T0, "")>> >>),
      json_dumps(<< <<"email", V_ALICE>>, <<"created_at", TsCode(T0 + 3600, "+01:00")>> >>),
      json_dumps(<< <<"email", V_ALICE>>, <<"created_at", TsCode(T0 - 3600, "-01:00")>> >>),
      json_dumps(<< <<"email", V_BOB>>, <<"created_at", TsCode(T0 + FutureSkew, "Z")>> >>),
      json_dumps(<< <<"email", V_BOB>>,
                    <<"created_at", TsCode(T0 - 3600 + FutureSkew, "-01:00")>> >>),
      json_dumps(<< <<"email", V_ALICE>>, <<"created_at", V_TEXT>> >>),
      json_dumps(<< <<"email", V_ALICE>>, <<"created_at", V_NUMBER>> >>),
      json_dumps(<<>>),
      <<LBRACKET, RBRACKET>>,
      <<LBRACE, 1, RBRACE>>,
      <<200, 201>>,
      <<>> }

\* The edits applied to one byte of a token: the low bit and the high bit.
TamperDeltas == {1, 128}

Tamper(data, pos, delta) == [data EXCEPT ![pos] = (data[pos] + delta) % 256]

NoPads(s) == SelectSeq(s, LAMBDA c : c # BASE64_PAD)

\* A request's token, by how it was made:
\*   authentic  sealed by the issuer from plaintext pt
\*   tampered   an authentic token of pt with byte pos changed by delta
\*   unpadded   an authentic token of pt without its '=' characters
\*   forged     sealed from pt under another secret
\*   signed     the bytes pt under a genuine signature (no envelope inside)
\*   badpad     a genuine signature over IV || encryption of the block pt,
\*              which does not end in PKCS#7 padding
\*   raw        the characters pt as they are
Inputs ==
    [kind : {"authentic", "unpadded", "forged"}, pt : Plaintexts, pos : {0}, delta : {0}]
    \cup
    UNION { { [kind |-> "tampered", pt |-> json_dumps(P), pos |-> i, delta |-> dl] :
                i \in 1..Len(encode_bytes(MintSecret, MintIV, json_dumps(P))),
                dl \in TamperDeltas } :
            P \in {PayloadA, PayloadB} }
    \cup
    [kind : {"signed"},
     pt : { <<>>, [i \in 1..8 |-> i], [i \in 1..IV_LEN |-> i], [i \in 1..21 |-> i] },
     pos : {0}, delta : {0}]
    \cup
    [kind : {"badpad"},
     pt : { [i \in 1..BLOCK |-> 0], [i \in 1..BLOCK |-> 17], [i \in 1..BLOCK |-> i] },
     pos : {0}, delta : {0}]
    \cup
    [kind : {"raw"},
     pt : { <<>>, <<JUNK>>, <<0>>, <<0, 16, 32>>, <<0, 16, BASE64_PAD, BASE64_PAD>>,
            [i \in 1..44 |-> i], [i \in 1..64 |-> 9] },
     pos : {0}, delta : {0}]

Render(in) ==
    CASE in.kind = "authentic" ->
            urlsafe_b64encode(encode_bytes(MintSecret, MintIV, in.pt))
      [] in.kind = "tampered" ->
            urlsafe_b64encode(
                Tamper(encode_bytes(MintSecret, MintIV, in.pt), in.pos, in.delta))
      [] in.kind = "unpadded" ->
            NoPads(urlsafe_b64encode(encode_bytes(MintSecret, MintIV, in.pt)))
      [] in.kind = "forged" ->
            urlsafe_b64encode(encode_bytes(OtherSecret, MintIV, in.pt))
      [] in.kind = "signed" ->
            urlsafe_b64encode(sign(MintSecret, in.pt))
      [] in.kind = "badpad" ->
            urlsafe_b64encode(
                sign(MintSecret,
                     MintIV \o aes_cbc_encrypt(derive_keys(MintSecret).encryption_key,
                                               MintIV, in.pt)))
      [] OTHER -> in.pt

\* ------------------------------------------------------------------ state

\* How many times the clock advances in a run.
MaxTicks == 2
\* How many session tokens secrets.token_urlsafe hands out in a run.
MaxTokens == 2

Procs == {1, 2}

VARIABLES
    SHOPIFY_SSO_SECRET, \* the module global read from the environment
    utcnow,             \* what datetime.utcnow() returns, in seconds
    ticks,              \* clock advances so far
    \* validate_shopify_sso_token: one call at a time (the function is pure)
    pc,                 \* the statement the call is at
    input,              \* how the request's token was made (not read by the code)
    token,              \* the argument
    token_data,
    plaintext,
    customer_data,
    created_at_str,
    created_at,
    now,
    result,             \* "pending", "None", "customer_data" or "ValueError" (raised)
    line,               \* source line of the statement that ended the call
    \* the database
    sessions,           \* rows of the sessions table
    users,              \* rows of the users table
    \* the session manager's callers
    minted,             \* tokens handed out by secrets.token_urlsafe so far
    proc,               \* per request handler: the call in progress and its locals
    last,               \* the call that finished last and what it returned
    issued,             \* history: every row ever inserted into sessions
    revoked,            \* history: handed-out tokens whose delete has been executed
    \* the SSO callback
    cb                  \* per request handler: the shopify_callback run and its locals

clockVars == <<utcnow, ticks>>
decodeVars ==
    <<pc, input, token, token_data, plaintext, customer_data, created_at_str,
      created_at, now, result, line>>
storeVars == <<sessions, users, minted, proc, last, issued, revoked>>
vars == <<SHOPIFY_SSO_SECRET, clockVars, decodeVars, storeVars, cb>>

\* A local that has not been assigned yet.
Unset == <<-2>>
NoInput == [kind |-> "none", pt |-> <<>>, pos |-> 0, delta |-> 0]
NoJson == [kind |-> "unset", d |-> <<>>]

\* A handler that is not running shopify_callback.
NoCallback ==
    [pc |-> "none", in |-> NoInput, customer_data |-> NoJson, decoded |-> "pending",
     upsert |-> "none",
     args |-> [email |-> V_NULL, first_name |-> V_NULL, last_name |-> V_NULL,
               shopify_customer_id |-> V_NULL],
     existing |-> 0, user |-> 0, session_token |-> 0, expires_at |-> 0,
     response |-> "pending", cookie |-> 0]

DecodeIdle ==
    /\ pc = "idle"
    /\ input = NoInput
    /\ token = <<>>
    /\ token_data = Unset
    /\ plaintext = Unset
    /\ customer_data = NoJson
    /\ created_at_str = V_NULL
    /\ created_at = NoDatetime
    /\ now = NoDatetime
    /\ result = "pending"
    /\ line = 0

\* ----------------------------------------- validate_shopify_sso_token

signature(data) == LastN(data, SIG_LEN)
encrypted_data(data) == DropLastN(data, SIG_LEN)
iv(data) == FirstN(encrypted_data(data), IV_LEN)
ciphertext(data) == FromN(encrypted_data(data), IV_LEN)

\* Lines 44-52: the trailing 32 bytes against the HMAC of the rest.
expected_signature(secret, data) ==
    hmac_sha256(derive_keys(secret).signature_key, encrypted_data(data))

\* A comparison that stops after the first half of the digest.
SignatureMatches_FirstHalf(secret, data) ==
    compare_digest(FirstN(signature(data), KEY_LEN),
                   FirstN(expected_signature(secret, data), KEY_LEN))

SignatureMatches(secret, data) ==
    compare_digest(signature(data), expected_signature(secret, data))

\* Lines 79-81: diff_minutes > TOKEN_EXPIRY_MINUTES, with diff_minutes the
\* difference in seconds divided by 60 (compared here without dividing).
IsExpired(n, c) == total_seconds(n, c) > TOKEN_EXPIRY_MINUTES * 60

\* No except clause: the exception leaves the function.
ExceptResult_Propagates == "Exception"

\* Lines 86-88: the except clause prints the error and returns None.
ExceptResult == "None"

Finish(res, ln) ==
    /\ pc' = "done"
    /\ result' = res
    /\ line' = ln

Except == Finish(ExceptResult, 88)

\* The callback hands the function the request's token.
Call(in) ==
    /\ pc = "idle"
    /\ pc' = "check_secret"
    /\ input' = in
    /\ token' = Render(in)
    /\ UNCHANGED <<token_data, plaintext, customer_data, created_at_str,
                   created_at, now, result, line>>
    /\ UNCHANGED <<SHOPIFY_SSO_SECRET, clockVars, storeVars, cb>>

\* Lines 31-32
CheckSecret ==
    /\ pc = "check_secret"
    /\ IF SHOPIFY_SSO_SECRET = <<>>
       THEN Finish("ValueError", 32)
       ELSE pc' = "b64decode" /\ UNCHANGED <<result, line>>
    /\ UNCHANGED <<input, token, token_data, plaintext, customer_data,
                   created_at_str, created_at, now>>
    /\ UNCHANGED <<SHOPIFY_SSO_SECRET, clockVars, storeVars, cb>>

\* Line 36
B64Decode ==
    /\ pc = "b64decode"
    /\ LET data == urlsafe_b64decode(token) IN
       IF data = Raised
       THEN Except /\ UNCHANGED token_data
       ELSE /\ token_data' = data
            /\ pc' = "verify_signature"
            /\ UNCHANGED <<result, line>>
    /\ UNCHANGED <<input, token, plaintext, customer_data, created_at_str,
                   created_at, now>>
    /\ UNCHANGED <<SHOPIFY_SSO_SECRET, clockVars, storeVars, cb>>

\* The signature is computed but the result of the comparison is not acted on.
VerifySignature_Unchecked ==
    /\ pc = "verify_signature"
    /\ pc' = "decrypt"
    /\ UNCHANGED <<result, line>>
    /\ UNCHANGED <<input, token, token_data, plaintext, customer_data,
                   created_at_str, created_at, now>>
    /\ UNCHANGED <<SHOPIFY_SSO_SECRET, clockVars, storeVars, cb>>

\* Lines 39-53
VerifySignature ==
    /\ pc = "verify_signature"
    /\ IF ~SignatureMatches(SHOPIFY_SSO_SECRET, token_data)
       THEN Finish("None", 53)
       ELSE pc' = "decrypt" /\ UNCHANGED <<result, line>>
    /\ UNCHANGED <<input, token, token_data, plaintext, customer_data,
                   created_at_str, created_at, now>>
    /\ UNCHANGED <<SHOPIFY_SSO_SECRET, clockVars, storeVars, cb>>

\* Lines 56-64
Decrypt ==
    /\ pc = "decrypt"
    /\ plaintext' = aes_cbc_decrypt(derive_keys(SHOPIFY_SSO_SECRET).encryption_key,
                                    iv(token_data), ciphertext(token_data))
    /\ IF plaintext' = Raised
       THEN Except
       ELSE pc' = "unpad" /\ UNCHANGED <<result, line>>
    /\ UNCHANGED <<input, token, token_data, customer_data, created_at_str,
                   created_at, now>>
    /\ UNCHANGED <<SHOPIFY_SSO_SECRET, clockVars, storeVars, cb>>

\* Lines 67-68
Unpad ==
    /\ pc = "unpad"
    /\ plaintext' = pkcs7_unpad(plaintext)
    /\ IF plaintext' = Raised
       THEN Except
       ELSE pc' = "json_loads" /\ UNCHANGED <<result, line>>
    /\ UNCHANGED <<input, token, token_data, customer_data, created_at_str,
                   created_at, now>>
    /\ UNCHANGED <<SHOPIFY_SSO_SECRET, clockVars, storeVars, cb>>

\* Line 70
JsonLoads ==
    /\ pc = "json_loads"
    /\ customer_data' = json_loads(plaintext)
    /\ IF customer_data' = JsonError
       THEN Except
       ELSE pc' = "get_created_at" /\ UNCHANGED <<result, line>>
    /\ UNCHANGED <<input, token, token_data, plaintext, created_at_str,
                   created_at, now>>
    /\ UNCHANGED <<SHOPIFY_SSO_SECRET, clockVars, storeVars, cb>>

\* Line 73: customer_data.get("createdAt") or customer_data.get("created_at")
GetCreatedAtStr(d) ==
    IF Truthy(DictGet(d, "createdAt"))
    THEN DictGet(d, "createdAt")
    ELSE DictGet(d, "created_at")

\* Lines 73-75; .get on a value that is no dict raises AttributeError.
GetCreatedAt ==
    /\ pc = "get_created_at"
    /\ IF customer_data.kind # "dict"
       THEN Except /\ UNCHANGED created_at_str
       ELSE /\ created_at_str' = GetCreatedAtStr(customer_data.d)
            /\ IF ~Truthy(created_at_str')
               THEN Finish("None", 75)
               ELSE pc' = "fromisoformat" /\ UNCHANGED <<result, line>>
    /\ UNCHANGED <<input, token, token_data, plaintext, customer_data,
                   created_at, now>>
    /\ UNCHANGED <<SHOPIFY_SSO_SECRET, clockVars, storeVars, cb>>

\* Line 77: created_at_str.replace('Z', '+00:00') raises AttributeError on
\* a number, fromisoformat raises ValueError on a string that is no date.
ParseCreatedAt(v) ==
    IF ~IsTimestampValue(v)
    THEN NoDatetime
    ELSE fromisoformat(ReplaceZ(TsStrings[v - TS_BASE]))

FromIsoFormat ==
    /\ pc = "fromisoformat"
    /\ created_at' = ParseCreatedAt(created_at_str)
    /\ IF ~created_at'.valid
       THEN Except
       ELSE pc' = "check_expiry" /\ UNCHANGED <<result, line>>
    /\ UNCHANGED <<input, token, token_data, plaintext, customer_data,
                   created_at_str, now>>
    /\ UNCHANGED <<SHOPIFY_SSO_SECRET, clockVars, storeVars, cb>>

\* Lines 78-84
CheckExpiry ==
    /\ pc = "check_expiry"
    /\ now' = ReplaceTzinfo(utcnow, created_at)
    /\ IF IsExpired(now', created_at)
       THEN Finish("None", 82)
       ELSE Finish("customer_data", 84)
    /\ UNCHANGED <<input, token, token_data, plaintext, customer_data,
                   created_at_str, created_at>>
    /\ UNCHANGED <<SHOPIFY_SSO_SECRET, clockVars, storeVars, cb>>

\* The call is over; the next request can come.
Return ==
    /\ pc = "done"
    /\ pc' = "idle"
    /\ input' = NoInput
    /\ token' = <<>>
    /\ token_data' = Unset
    /\ plaintext' = Unset
    /\ customer_data' = NoJson
    /\ created_at_str' = V_NULL
    /\ created_at' = NoDatetime
    /\ now' = NoDatetime
    /\ result' = "pending"
    /\ line' = 0
    /\ UNCHANGED <<SHOPIFY_SSO_SECRET, clockVars, storeVars, cb>>

\* Time passes: by a second, or to one second before or one second after
\* the freshness window closes on a token minted now.
DecodeTickSteps == {1, TOKEN_EXPIRY_MINUTES * 60 - 1, TOKEN_EXPIRY_MINUTES * 60 + 1}

TickDecode ==
    /\ ticks < MaxTicks
    /\ \E d \in DecodeTickSteps : utcnow' = utcnow + d
    /\ ticks' = ticks + 1
    /\ UNCHANGED <<SHOPIFY_SSO_SECRET, decodeVars, storeVars, cb>>

\* ------------------------------------------------------ session manager

SESSION_DAYS == 7

UserIds == {1, 2}

\* Session tokens: 0 is the empty string, 1..MaxTokens are the values
\* secrets.token_urlsafe hands out, each time one it never returned before,
\* and MaxTokens + 1 is a string it never returns.  A caller presents the
\* empty string, a token handed out earlier, or the string never handed out.
ReturnedTokens == { r.token : r \in issued }

ArgTokens == {0} \cup ReturnedTokens \cup {MaxTokens + 1}

\* What held of the token when the call was made (not read by the code):
\* a row for it had been inserted, that row's expires_at had been reached,
\* a delete of it had been executed, a row for it was in the table.
NoPre == [issued |-> FALSE, expired |-> FALSE, revoked |-> FALSE, existed |-> FALSE]

PreOf(t) ==
    [issued  |-> \E r \in issued : r.token = t,
     expired |-> \E r \in issued : r.token = t /\ utcnow >= r.expires_at,
     revoked |-> t \in revoked,
     existed |-> \E s \in sessions : s.token = t]

\* A handler between calls, and the locals of create_user_session.
IdleProc ==
    [op |-> "idle", pc |-> "idle", session_token |-> 0, user_id |-> 0, expires_at |-> 0]

\* The call that finished last: the function, its token argument (for
\* create_user_session the token it made), what it returned (ret, and the
\* user id or token in value), the line it ended at, and pre.
NoCall ==
    [op |-> "none", session_token |-> 0, ret |-> "pending", value |-> 0,
     line |-> 0, pre |-> NoPre]

StoreIdle ==
    /\ sessions = {}
    /\ users = {}
    /\ minted = 0
    /\ proc = [p \in Procs |-> IdleProc]
    /\ last = NoCall
    /\ issued = {}
    /\ revoked = {}

\* Line 76: datetime.utcnow() + timedelta(days=7)
ExpiresAt(t) == t + SESSION_DAYS * 24 * 60 * 60

\* create_user_session, lines 70-76: the token and the expiry.
CreateSessionBegin(p, uid) ==
    /\ proc[p].op = "idle"
    /\ minted < MaxTokens
    /\ minted' = minted + 1
    /\ proc' = [proc EXCEPT ![p] =
                  [op |-> "create_user_session", pc |-> "insert", user_id |-> uid,
                   session_token |-> minted + 1, expires_at |-> ExpiresAt(utcnow)]]
    /\ UNCHANGED <<sessions, users, last, issued, revoked>>
    /\ UNCHANGED <<SHOPIFY_SSO_SECRET, clockVars, decodeVars, cb>>

\* Lines 79-84: the row, with a second reading of the clock for created_at.
SessionRow(session_token, user_id, expires_at) ==
    [token |-> session_token, user_id |-> user_id,
     expires_at |-> expires_at, created_at |-> utcnow]

\* create_user_session, lines 79-88: the insert and the return; an error of
\* the store is not caught and leaves the function.
CreateSessionInsert(p) ==
    /\ proc[p].op = "create_user_session"
    /\ proc[p].pc = "insert"
    /\ \E fault \in BOOLEAN :
         LET row  == SessionRow(proc[p].session_token, proc[p].user_id,
                                proc[p].expires_at)
             call == [NoCall EXCEPT !.op = "create_user_session",
                                    !.session_token = proc[p].session_token]
         IN  IF fault
             THEN /\ last' = [call EXCEPT !.ret = "raise", !.line = 86]
                  /\ UNCHANGED <<sessions, issued>>
             ELSE /\ sessions' = sessions \cup {row}
                  /\ issued' = issued \cup {row}
                  /\ last' = [call EXCEPT !.ret = "token", !.line = 88,
                                          !.value = proc[p].session_token]
    /\ proc' = [proc EXCEPT ![p] = IdleProc]
    /\ UNCHANGED <<users, minted, revoked>>
    /\ UNCHANGED <<SHOPIFY_SSO_SECRET, clockVars, decodeVars, cb>>

\* The query without the filter on the token.
SelectSessions_AnyToken(t, n) == { s \in sessions : s.expires_at > n }

\* The query with gte in place of gt.
SelectSessions_AtExpiry(t, n) == { s \in sessions : s.token = t /\ s.expires_at >= n }

\* Lines 108-114: the rows of sessions with this token and expires_at > now.
SelectSessions(t, n) == { s \in sessions : s.token = t /\ s.expires_at > n }

\* Lines 119-135: the user the row refers to, from the joined users row or
\* from the second query by id.
ResolveUser(session) == { u \in users : u.id = session.user_id }

\* Lines 137-139: the except clause of get_user_from_session.
AuthExceptRet == "None"

\* get_user_from_session, lines 101-139: None for an empty token; else the
\* query with the clock's reading, then the user of the first row; any
\* error of the store is caught.
GetUserFromSession(p, t) ==
    /\ proc[p].op = "idle"
    /\ \E fault \in BOOLEAN :
         LET rows == SelectSessions(t, utcnow)
             call == [NoCall EXCEPT !.op = "get_user_from_session",
                                    !.session_token = t, !.pre = PreOf(t)]
         IN  last' =
               IF t = 0
               THEN [call EXCEPT !.ret = "None", !.line = 102]
               ELSE IF fault
               THEN [call EXCEPT !.ret = AuthExceptRet, !.line = 139]
               ELSE IF rows = {}
               THEN [call EXCEPT !.ret = "None", !.line = 117]
               ELSE LET session == CHOOSE s \in rows : TRUE
                        found   == ResolveUser(session)
                    IN  IF found = {}
                        THEN [call EXCEPT !.ret = "None", !.line = 135]
                        ELSE [call EXCEPT !.ret = "user",
                                          !.value = (CHOOSE u \in found : TRUE).id,
                                          !.line = 123]
    /\ UNCHANGED <<sessions, users, minted, proc, issued, revoked>>
    /\ UNCHANGED <<SHOPIFY_SSO_SECRET, clockVars, decodeVars, cb>>

\* The middleware without its check of the cookie.
get_current_user_Unchecked(session_token, ret) ==
    IF ret = "None" THEN "401 Invalid or expired session" ELSE "200"

\* get_current_user, lines 19-36: what the middleware answers for the
\* cookie and the value get_user_from_session returned for it.
get_current_user(session_token, ret) ==
    IF session_token = 0 THEN "401 Not authenticated"
    ELSE IF ret = "None" THEN "401 Invalid or expired session"
    ELSE "200"

\* A delete that matches no row.
AfterDelete_Keeps(t) == sessions

\* Line 155: the rows left after delete().eq("token", t).
AfterDelete(t) == { s \in sessions : s.token # t }

\* Line 156: the value returned once the delete has been executed.
DeleteRet(existed) == "True"

\* delete_session, lines 152-159.
DeleteSession(p, t) ==
    /\ proc[p].op = "idle"
    /\ \E fault \in BOOLEAN :
         LET call == [NoCall EXCEPT !.op = "delete_session",
                                    !.session_token = t, !.pre = PreOf(t)]
         IN  IF fault
             THEN /\ last' = [call EXCEPT !.ret = "False", !.line = 159]
                  /\ UNCHANGED <<sessions, revoked>>
             ELSE /\ sessions' = AfterDelete(t)
                  /\ revoked' = revoked \cup ({t} \cap ReturnedTokens)
                  /\ last' = [call EXCEPT !.ret = DeleteRet(call.pre.existed),
                                          !.line = 156]
    /\ UNCHANGED <<users, minted, proc, issued>>
    /\ UNCHANGED <<SHOPIFY_SSO_SECRET, clockVars, decodeVars, cb>>

\* Time passes: by a second, or to one second before a session created
\* now expires.
SessionTickSteps == {1, SESSION_DAYS * 24 * 60 * 60 - 1}

TickSession ==
    /\ ticks < MaxTicks
    /\ \E d \in SessionTickSteps : utcnow' = utcnow + d
    /\ ticks' = ticks + 1
    /\ UNCHANGED <<SHOPIFY_SSO_SECRET, decodeVars, storeVars, cb>>

InitSession ==
    /\ SHOPIFY_SSO_SECRET = MintSecret
    /\ utcnow = T0
    /\ ticks = 0
    /\ DecodeIdle
    /\ sessions = {}
    /\ users = { [id |-> 1, email |-> V_ALICE], [id |-> 2, email |-> V_BOB] }
    /\ minted = 0
    /\ proc = [p \in Procs |-> IdleProc]
    /\ last = NoCall
    /\ issued = {}
    /\ revoked = {}
    /\ cb = [p \in Procs |-> NoCallback]

NextSession ==
    \/ \E p \in Procs, uid \in UserIds : CreateSessionBegin(p, uid)
    \/ \E p \in Procs : CreateSessionInsert(p)
    \/ \E p \in Procs, t \in ArgTokens : GetUserFromSession(p, t)
    \/ \E p \in Procs, t \in ArgTokens : DeleteSession(p, t)
    \/ TickSession

SpecSession == InitSession /\ [][NextSession]_vars

InitDecode ==
    /\ SHOPIFY_SSO_SECRET \in {<<>>, MintSecret}
    /\ utcnow = T0
    /\ ticks = 0
    /\ DecodeIdle
    /\ StoreIdle
    /\ cb = [p \in Procs |-> NoCallback]

NextDecode ==
    \/ \E in \in Inputs : Call(in)
    \/ CheckSecret
    \/ B64Decode
    \/ VerifySignature
    \/ Decrypt
    \/ Unpad
    \/ JsonLoads
    \/ GetCreatedAt
    \/ FromIsoFormat
    \/ CheckExpiry
    \/ Return
    \/ TickDecode

SpecDecode == InitDecode /\ [][NextDecode]_vars

\* ----------------------------------------------------------- SSO callback

\* The tokens the callback's requests carry: assertions for a new user
\* with the optional fields spelled either way, assertions without email
\* or without timestamp, a token with a changed signature byte, characters
\* that are no base64, and the empty string.
CallbackPayloads ==
    << PayloadA,
       PayloadB,
       << <<"email", V_ALICE>>, <<"created_at", TsCode(T0, "Z")>>, <<"firstName", V_NAME>> >>,
       << <<"email", V_ALICE>>, <<"created_at", TsCode(T0, "Z")>>, <<"first_name", V_NAME>> >>,
       << <<"email", V_ALICE>>, <<"createdAt", TsCode(T0, "Z")>>, <<"first_name", V_NAME>> >>,
       << <<"email", V_ALICE>>, <<"created_at", TsCode(T0, "Z")>>, <<"firstName", V_EMPTY>> >>,
       << <<"email", V_ALICE>>, <<"created_at", TsCode(T0, "Z")>>, <<"first_name", V_EMPTY>> >>,
       << <<"email", V_BOB>>, <<"created_at", TsCode(T0, "Z")>>,
          <<"lastName", V_TEXT>>, <<"shopifyCustomerId", V_CUSTID>> >>,
       << <<"email", V_BOB>>, <<"created_at", TsCode(T0, "Z")>>,
          <<"last_name", V_TEXT>>, <<"shopify_customer_id", V_CUSTID>> >>,
       << <<"created_at", TsCode(T0, "Z")>> >>,
       << <<"email", V_ALICE>> >> >>

CallbackInputs ==
    [i \in 1..Len(CallbackPayloads) |->
        [kind |-> "authentic", pt |-> json_dumps(CallbackPayloads[i]),
         pos |-> 0, delta |-> 0]]
    \o << [kind |-> "tampered", pt |-> json_dumps(PayloadA),
           pos |-> Len(encode_bytes(MintSecret, MintIV, json_dumps(PayloadA))),
           delta |-> 1],
          [kind |-> "raw", pt |-> <<JUNK>>, pos |-> 0, delta |-> 0],
          [kind |-> "raw", pt |-> <<>>, pos |-> 0, delta |-> 0] >>

\* The responses of shopify_callback: its redirects, and the server error
\* for an exception that leaves the handler.
Redirects ==
    { "/login?error=missing_token", "/login?error=invalid_token",
      "/login?error=user_creation_failed", "/login?error=authentication_failed" }

\* The callback returns or raises: the response, and the cookie set on it
\* (0 for none).
Respond(p, url, cookie) ==
    cb' = [cb EXCEPT ![p].pc = "responded", ![p].response = url, ![p].cookie = cookie]

\* Lines 28-29: an empty token parameter is answered at once.
CallbackCheckToken(p) ==
    /\ cb[p].pc = "check_token"
    /\ IF Render(cb[p].in) = <<>>
       THEN Respond(p, "/login?error=missing_token", 0)
       ELSE cb' = [cb EXCEPT ![p].pc = "validate"]
    /\ UNCHANGED <<SHOPIFY_SSO_SECRET, clockVars, decodeVars, storeVars>>

\* Line 32: the call of validate_shopify_sso_token with the request's token.
CallbackValidate(p) ==
    /\ cb[p].pc = "validate"
    /\ Call(cb[p].in)

\* Python's `a or b`.
Or(a, b) == IF Truthy(a) THEN a ELSE b

\* Lines 40-45: the arguments of create_or_update_user.
UpsertArgs(d) ==
    [email |-> d["email"],
     first_name |-> Or(DictGet(d, "firstName"), DictGet(d, "first_name")),
     last_name |-> Or(DictGet(d, "lastName"), DictGet(d, "last_name")),
     shopify_customer_id |->
         Or(DictGet(d, "shopifyCustomerId"), DictGet(d, "shopify_customer_id"))]

\* The locals of validate_shopify_sso_token once the call is over.
DecodeCleared ==
    /\ pc' = "idle"
    /\ input' = NoInput
    /\ token' = <<>>
    /\ token_data' = Unset
    /\ plaintext' = Unset
    /\ customer_data' = NoJson
    /\ created_at_str' = V_NULL
    /\ created_at' = NoDatetime
    /\ now' = NoDatetime
    /\ result' = "pending"
    /\ line' = 0

\* Lines 32-45: what validate_shopify_sso_token returned or raised.  The
\* ValueError of line 32 is raised outside the try block and leaves the
\* handler; a falsy result is answered with invalid_token; otherwise the
\* arguments of create_or_update_user are read from the payload, where a
\* missing "email" raises KeyError inside the try block (lines 67-69).
CallbackAfterValidate(p) ==
    /\ cb[p].pc = "validate"
    /\ pc = "done"
    /\ input = cb[p].in
    /\ DecodeCleared
    /\ LET seen == [cb EXCEPT ![p].decoded = result,
                              ![p].customer_data =
                                  IF result = "customer_data" THEN customer_data
                                  ELSE NoJson]
       IN  IF result = "ValueError"
           THEN cb' = [seen EXCEPT ![p].pc = "responded", ![p].response = "500"]
           ELSE IF result = "None" \/ DOMAIN customer_data.d = {}
           THEN cb' = [seen EXCEPT ![p].pc = "responded",
                                   ![p].response = "/login?error=invalid_token"]
           ELSE IF "email" \notin DOMAIN customer_data.d
           THEN cb' = [seen EXCEPT ![p].pc = "responded",
                                   ![p].response = "/login?error=authentication_failed"]
           ELSE cb' = [seen EXCEPT ![p].pc = "upsert_select",
                                   ![p].upsert = "called",
                                   ![p].args = UpsertArgs(customer_data.d)]
    /\ UNCHANGED <<SHOPIFY_SSO_SECRET, clockVars, storeVars>>

\* An exception inside the try block of shopify_callback (lines 67-69).
CallbackExcept(p) == Respond(p, "/login?error=authentication_failed", 0)

\* create_or_update_user, line 33: the users with this email; data[0] is
\* any one of them.  An error of the store leaves the function and is
\* caught by the callback.
CreateOrUpdateUserSelect(p) ==
    /\ cb[p].pc = "upsert_select"
    /\ \E fault \in BOOLEAN :
         LET existing_user == { u \in users : u.email = cb[p].args.email }
         IN  IF fault
             THEN CallbackExcept(p)
             ELSE IF existing_user = {}
             THEN cb' = [cb EXCEPT ![p].pc = "upsert_write", ![p].existing = 0]
             ELSE \E u \in existing_user :
                     cb' = [cb EXCEPT ![p].pc = "upsert_write", ![p].existing = u.id]
    /\ UNCHANGED <<SHOPIFY_SSO_SECRET, clockVars, decodeVars, storeVars>>

\* The id the database gives the next row of users.
NewUserId == 1 + Cardinality(users)

\* Lines 35-41: user_data (the timestamps updated_at and created_at are
\* left out of the rows).
UserRow(id, args) ==
    [id |-> id, email |-> args.email, first_name |-> args.first_name,
     last_name |-> args.last_name, shopify_customer_id |-> args.shopify_customer_id]

\* The callback without its check of the user.
CallbackCheckUser_Unchecked(p, user) ==
    cb' = [cb EXCEPT ![p].pc = "create_session", ![p].user = user]

\* The callback's check of the user, lines 47-48, and its move to
\* create_user_session.
CallbackCheckUser(p, user) ==
    IF user = 0
    THEN Respond(p, "/login?error=user_creation_failed", 0)
    ELSE cb' = [cb EXCEPT ![p].pc = "create_session", ![p].user = user]

\* create_or_update_user, lines 43-57: the update of the row found, or the
\* insert of a new one, whose result may come back without data.
CreateOrUpdateUserWrite(p) ==
    /\ cb[p].pc = "upsert_write"
    /\ \E fault \in BOOLEAN, returned \in BOOLEAN :
         IF fault
         THEN CallbackExcept(p) /\ UNCHANGED users
         ELSE IF cb[p].existing # 0
         THEN /\ users' = { IF u.id = cb[p].existing
                            THEN UserRow(u.id, cb[p].args) ELSE u : u \in users }
              /\ CallbackCheckUser(p, cb[p].existing)
         ELSE /\ users' = users \cup {UserRow(NewUserId, cb[p].args)}
              /\ CallbackCheckUser(p, IF returned THEN NewUserId ELSE 0)
    /\ UNCHANGED <<sessions, minted, proc, last, issued, revoked>>
    /\ UNCHANGED <<SHOPIFY_SSO_SECRET, clockVars, decodeVars>>

\* Line 51 and create_user_session, lines 70-76: the token and the expiry.
CallbackCreateSession(p) ==
    /\ cb[p].pc = "create_session"
    /\ minted < MaxTokens
    /\ minted' = minted + 1
    /\ cb' = [cb EXCEPT ![p].pc = "session_insert",
                        ![p].session_token = minted + 1,
                        ![p].expires_at = ExpiresAt(utcnow)]
    /\ UNCHANGED <<sessions, users, proc, last, issued, revoked>>
    /\ UNCHANGED <<SHOPIFY_SSO_SECRET, clockVars, decodeVars>>

\* create_user_session, lines 79-88, and lines 54-65: the insert, then the
\* redirect to return_to with the session cookie; an error of the store is
\* caught by the callback.
CallbackInsertSession(p) ==
    /\ cb[p].pc = "session_insert"
    /\ \E fault \in BOOLEAN :
         LET row == SessionRow(cb[p].session_token, cb[p].user, cb[p].expires_at)
         IN  IF fault
             THEN CallbackExcept(p) /\ UNCHANGED <<sessions, issued>>
             ELSE /\ sessions' = sessions \cup {row}
                  /\ issued' = issued \cup {row}
                  /\ Respond(p, "return_to", cb[p].session_token)
    /\ UNCHANGED <<users, minted, proc, last, revoked>>
    /\ UNCHANGED <<SHOPIFY_SSO_SECRET, clockVars, decodeVars>>

\* Time passes: to one second after the freshness window of a token
\* minted now has closed.
CallbackTickSteps == {TOKEN_EXPIRY_MINUTES * 60 + 1}

TickCallback ==
    /\ ticks < MaxTicks
    /\ \E d \in CallbackTickSteps : utcnow' = utcnow + d
    /\ ticks' = ticks + 1
    /\ UNCHANGED <<SHOPIFY_SSO_SECRET, decodeVars, storeVars, cb>>

\* Two requests reach the callback; the handlers being alike, the first
\* carries the token listed first.
InitCallback ==
    /\ SHOPIFY_SSO_SECRET \in {<<>>, MintSecret}
    /\ utcnow = T0
    /\ ticks = 0
    /\ DecodeIdle
    /\ StoreIdle
    /\ \E i \in 1..Len(CallbackInputs), j \in 1..Len(CallbackInputs) :
          /\ i <= j
          /\ cb = [p \in Procs |->
                     [NoCallback EXCEPT !.pc = "check_token",
                                        !.in = CallbackInputs[IF p = 1 THEN i ELSE j]]]

NextCallback ==
    \/ \E p \in Procs : CallbackCheckToken(p)
    \/ \E p \in Procs : CallbackValidate(p)
    \/ CheckSecret
    \/ B64Decode
    \/ VerifySignature
    \/ Decrypt
    \/ Unpad
    \/ JsonLoads
    \/ GetCreatedAt
    \/ FromIsoFormat
    \/ CheckExpiry
    \/ \E p \in Procs : CallbackAfterValidate(p)
    \/ \E p \in Procs : CreateOrUpdateUserSelect(p)
    \/ \E p \in Procs : CreateOrUpdateUserWrite(p)
    \/ \E p \in Procs : CallbackCreateSession(p)
    \/ \E p \in Procs : CallbackInsertSession(p)
    \/ TickCallback

SpecCallback == InitCallback /\ [][NextCallback]_vars

\* ------------------------------------------------------- claims: decode

\* What a token's payload says, read off the way the token was made.
PayloadOf(in) == json_loads(in.pt)

\* The instant an ISO-8601 string denotes, in UTC seconds: its wall reading
\* less its offset (a string without zone is read as UTC).
InstantOf(ts) == ts.wall - ZoneSeconds(ReplaceZ(ts).zone)

\* An authentic token whose payload is an object with an email and a
\* creation timestamp that is a timestamp.
WellFormed(in) ==
    /\ in.kind = "authentic"
    /\ PayloadOf(in).kind = "dict"
    /\ "email" \in DOMAIN PayloadOf(in).d
    /\ IsTimestampValue(GetCreatedAtStr(PayloadOf(in).d))

\* The true age of the token in the call, in seconds, at the moment the
\* call read the clock.
AgeSeconds == now.wall - InstantOf(TsStrings[GetCreatedAtStr(PayloadOf(input).d) - TS_BASE])

\* The trailing 32 bytes are the HMAC, under the signing subkey, of the
\* bytes before them.
GenuineSignature(data) ==
    LastN(data, SIG_LEN)
        = hmac_sha256(SubSeq(sha256(SHOPIFY_SSO_SECRET), 17, 32), DropLastN(data, SIG_LEN))

\* C1: the call is at the decryption step or past it, or has a decrypted
\* (or failed-to-decrypt) plaintext, only if the token's signature is the
\* HMAC of IV || ciphertext; a token rejected for its signature has no
\* plaintext.
C1_SignatureBeforeDecryption ==
    /\ ( \/ pc \in {"decrypt", "unpad", "json_loads", "get_created_at",
                    "fromisoformat", "check_expiry"}
         \/ plaintext # Unset
         \/ customer_data # NoJson )
       => GenuineSignature(token_data)
    /\ (pc = "done" /\ line = 53) => plaintext = Unset

C1_Witness ==
    /\ pc = "unpad"
    /\ plaintext # Unset
    /\ GenuineSignature(token_data)

\* C2: a valid token with one byte of its ciphertext or of its signature
\* changed is never accepted: the call returns None, at the signature
\* check or in the except clause.
C2_TamperRejected ==
    (pc = "done" /\ input.kind = "tampered" /\ input.pos > IV_LEN)
    => /\ result # "customer_data"
       /\ SHOPIFY_SSO_SECRET # <<>> => (result = "None" /\ line \in {53, 88})

C2_Witness ==
    /\ pc = "done"
    /\ input.kind = "tampered"
    /\ input.pos > IV_LEN + BLOCK
    /\ result = "None"
    /\ line = 53

\* C3: an authentic, well-formed token is rejected as expired (line 82)
\* exactly when its age at the check is more than 15 minutes.
C3_ExpiryBoundary ==
    (pc = "done" /\ SHOPIFY_SSO_SECRET # <<>> /\ WellFormed(input))
    => ((result = "None" /\ line = 82) <=> AgeSeconds > TOKEN_EXPIRY_MINUTES * 60)

\* C9: an authentic token whose payload object has no email, or has no
\* creation timestamp under either key, is rejected: the call returns
\* None and never the payload.
LacksRequired(in) ==
    /\ in.kind = "authentic"
    /\ PayloadOf(in).kind = "dict"
    /\ \/ "email" \notin DOMAIN PayloadOf(in).d
       \/ {"createdAt", "created_at"} \cap DOMAIN PayloadOf(in).d = {}

C9_RequiredFields ==
    (pc = "done" /\ SHOPIFY_SSO_SECRET # <<>> /\ LacksRequired(input))
    => (result = "None" /\ line \in {75, 88})

\* C10: with a secret configured the call ends by returning, None or the
\* payload, whatever the token; without one it raises the configuration
\* error before looking at the token, and accepts nothing.
C10_NeverRaises ==
    pc = "done" =>
        IF SHOPIFY_SSO_SECRET # <<>>
        THEN result \in {"None", "customer_data"}
        ELSE result = "ValueError" /\ line = 32 /\ token_data = Unset

C10_Witness ==
    /\ pc = "done"
    /\ input.kind = "badpad"
    /\ result = "None"
    /\ line = 88

\* The payload is an identity assertion: an object with an email and a
\* creation timestamp.
ValidAssertion(in) ==
    /\ PayloadOf(in).kind = "dict"
    /\ "email" \in DOMAIN PayloadOf(in).d
    /\ IsTimestampValue(GetCreatedAtStr(PayloadOf(in).d))

\* The instant the payload's creation timestamp denotes.
CreatedInstant(in) == InstantOf(TsStrings[GetCreatedAtStr(PayloadOf(in).d) - TS_BASE])

\* C11: a token the encoder made (base64url without padding characters)
\* from an assertion stamped with the time of encoding, decoded under the
\* same secret less than 15 minutes later, is accepted, and the record
\* returned is the assertion.
C11_RoundTrip ==
    ( /\ pc = "done"
      /\ SHOPIFY_SSO_SECRET = MintSecret
      /\ input.kind = "unpadded"
      /\ ValidAssertion(input)
      /\ CreatedInstant(input) = T0
      /\ utcnow - T0 < TOKEN_EXPIRY_MINUTES * 60 )
    => (result = "customer_data" /\ line = 84 /\ customer_data = PayloadOf(input))

\* C16: an authentic, well-formed token whose created_at denotes an
\* instant more than 15 minutes before the clock's reading is rejected as
\* expired (line 82), whatever offset the timestamp is written with.
C16_OffsetCannotBypassExpiry ==
    ( /\ pc = "done"
      /\ SHOPIFY_SSO_SECRET # <<>>
      /\ WellFormed(input)
      /\ AgeSeconds > TOKEN_EXPIRY_MINUTES * 60 )
    => (result = "None" /\ line = 82)

\* C18: an authentic, well-formed token stamped later than the time it
\* was minted is accepted while the clock has not reached its created_at,
\* and on until 15 minutes after it.
C18_NoLowerBound ==
    ( /\ pc = "done"
      /\ SHOPIFY_SSO_SECRET # <<>>
      /\ WellFormed(input)
      /\ CreatedInstant(input) > T0
      /\ AgeSeconds <= TOKEN_EXPIRY_MINUTES * 60 )
    => (result = "customer_data" /\ line = 84)

\* ------------------------------------------------------ claims: sessions

IsAuth == last.op = "get_user_from_session"
IsRevoke == last.op = "delete_session"

\* The user the row inserted for token t names.
IssuedUser(t) == (CHOOSE r \in issued : r.token = t).user_id

\* The call was made with a token whose row had been inserted, before that
\* row's expires_at, with no delete of the token executed before it.
LiveAtCall == last.pre.issued /\ ~last.pre.expired /\ ~last.pre.revoked

\* C4, as stated: get_user_from_session on a token issued for a user,
\* before its expiry and with no revoke before, returns that user.
C4_IssueThenLookup_AsStated ==
    (IsAuth /\ LiveAtCall)
    => (last.ret = "user" /\ last.value = IssuedUser(last.session_token))

\* C4, amended: the same, provided the store does not fail during the
\* lookup (the call does not end in the except clause, line 139).
C4_IssueThenLookup ==
    (IsAuth /\ LiveAtCall /\ last.line # 139)
    => (last.ret = "user" /\ last.value = IssuedUser(last.session_token))

C4_Witness ==
    /\ IsAuth
    /\ LiveAtCall
    /\ last.ret = "user"
    /\ last.value = IssuedUser(last.session_token)
    /\ \E s \in sessions : s.user_id # last.value /\ s.expires_at > utcnow

\* C5: get_user_from_session on a token whose expires_at has been reached
\* returns None, which the middleware answers with 401 "Invalid or expired
\* session", whether or not the row is still in the table.
C5_ExpiredRefused ==
    (IsAuth /\ last.pre.issued /\ last.pre.expired)
    => /\ last.ret = "None"
       /\ get_current_user(last.session_token, last.ret)
              = "401 Invalid or expired session"

C5_Witness ==
    /\ IsAuth
    /\ last.pre.issued
    /\ last.pre.expired
    /\ last.pre.existed
    /\ \E s \in sessions : s.token = last.session_token /\ s.expires_at = utcnow
    /\ last.ret = "None"
    /\ last.line = 117

\* C6: delete_session returns True if a row for the token existed and
\* False if none did (so a second revoke of the same token returns False),
\* and it never raises.
C6_RevokeReportsExistence ==
    IsRevoke =>
        /\ last.ret \in {"True", "False"}
        /\ last.line = 156 => last.ret = (IF last.pre.existed THEN "True" ELSE "False")

\* C7: get_user_from_session on a token whose delete was executed before
\* the call returns None; a revoked token has no row, and a token whose
\* expires_at has been reached has no row that is still valid.
C7_RevokedIsTerminal ==
    /\ (IsAuth /\ last.pre.revoked) => last.ret = "None"
    /\ \A t \in revoked : \A s \in sessions : s.token # t
    /\ \A r \in issued :
          utcnow >= r.expires_at
          => \A s \in sessions : s.token = r.token => utcnow >= s.expires_at

C7_Witness ==
    /\ IsAuth
    /\ last.pre.issued
    /\ last.pre.revoked
    /\ ~last.pre.expired
    /\ last.ret = "None"
    /\ last.line = 117

\* C8: when the store fails during get_user_from_session (the call ends in
\* the except clause), what the caller gets differs from what it gets for
\* an absent or expired session: not None, not the middleware's 401
\* "Invalid or expired session".
C8_StoreFaultDistinguished ==
    (IsAuth /\ last.line = 139)
    => /\ last.ret # "None"
       /\ get_current_user(last.session_token, last.ret)
              # "401 Invalid or expired session"

\* C14: get_user_from_session on the empty token returns at line 102,
\* before the store is looked at (store faults do not show in it), and the
\* middleware answers an empty cookie with 401 "Not authenticated", which
\* is not its answer for an absent or expired session.
C14_MissingHandle ==
    (IsAuth /\ last.session_token = 0)
    => /\ last.ret = "None"
       /\ last.line = 102
       /\ get_current_user(last.session_token, last.ret) = "401 Not authenticated"
       /\ get_current_user(last.session_token, last.ret)
              # get_current_user(MaxTokens + 1, "None")

C14_Witness ==
    /\ IsAuth
    /\ last.session_token = 0
    /\ last.line = 102
    /\ sessions # {}

\* A step in which a create_user_session call runs lines 79-88.
InsertStep == \E p \in Procs : proc[p].pc = "insert" /\ proc'[p].pc = "idle"

\* C15: a create_user_session call that returns a token has added one row
\* {token, user_id, created_at, expires_at} with expires_at = created_at +
\* 7 days and changed no other row; get_user_from_session changes no row;
\* delete_session removes at most the rows of its token.
C15_IssueEffectAndFrame ==
    [][ /\ (InsertStep /\ last'.ret = "token")
           => \E row \in sessions' \ sessions :
                 /\ sessions' = sessions \cup {row}
                 /\ DOMAIN row = {"token", "user_id", "created_at", "expires_at"}
                 /\ row.token = last'.session_token
                 /\ row.expires_at = row.created_at + SESSION_DAYS * 24 * 60 * 60
        /\ (InsertStep /\ last'.ret # "token") => sessions' = sessions
        /\ ~InsertStep
           => /\ sessions' \subseteq sessions
              /\ sessions' # sessions
                 => /\ last'.op = "delete_session"
                    /\ \A s \in sessions \ sessions' : s.token = last'.session_token
      ]_vars

\* ------------------------------------------------------ claims: callback

Responded(p) == cb[p].pc = "responded"

\* The rows of sessions written for the token this callback run made.
SessionsOf(p) ==
    { r \in sessions : cb[p].session_token # 0 /\ r.token = cb[p].session_token }

\* The run's token is one decode is to reject: validate_shopify_sso_token
\* returned None for it, or it is empty, or its payload lacks a required
\* field.
TokenRejected(p) ==
    /\ Responded(p)
    /\ SHOPIFY_SSO_SECRET # <<>>
    /\ \/ cb[p].decoded = "None"
       \/ Render(cb[p].in) = <<>>
       \/ LacksRequired(cb[p].in)

\* C12: for a token decode does not accept the callback makes no upsert
\* and no session and sets no cookie, and any two such tokens get the same
\* redirect.
C12_UniformFailure ==
    \A p \in Procs, q \in Procs :
        (TokenRejected(p) /\ TokenRejected(q))
        => /\ cb[p].response \in Redirects
           /\ cb[p].upsert = "none"
           /\ cb[p].cookie = 0
           /\ SessionsOf(p) = {}
           /\ cb[p].response = cb[q].response

\* The field a key of the payload spells.
FieldOf(key) ==
    CASE key \in {"createdAt", "created_at"} -> "created_at"
      [] key \in {"firstName", "first_name"} -> "first_name"
      [] key \in {"lastName", "last_name"} -> "last_name"
      [] key \in {"shopifyCustomerId", "shopify_customer_id"} -> "shopify_customer_id"
      [] OTHER -> key

\* The fields of a payload with their values, whatever the spelling.
Fields(d) == { <<FieldOf(k), d[k]>> : k \in DOMAIN d }

\* Two payloads giving every field one value, and the same one.
SameUpToSpelling(d, e) ==
    /\ Fields(d) = Fields(e)
    /\ \A x \in Fields(d), y \in Fields(d) : x[1] = y[1] => x = y

\* C13: two payloads that differ only in the spelling of their keys give
\* create_or_update_user the same arguments, and the freshness check the
\* same timestamp.
C13_FieldNameCompatibility ==
    \A p \in Procs, q \in Procs :
        ( /\ cb[p].upsert = "called"
          /\ cb[q].upsert = "called"
          /\ SameUpToSpelling(cb[p].customer_data.d, cb[q].customer_data.d) )
        => /\ cb[p].args = cb[q].args
           /\ GetCreatedAtStr(cb[p].customer_data.d)
                  = GetCreatedAtStr(cb[q].customer_data.d)

\* A session row or a session cookie of a run exists only if decode
\* accepted the run's token and the upsert returned a user with an id,
\* which the row names.
SessionOnlyAfterIdentity(p) ==
    (SessionsOf(p) # {} \/ cb[p].cookie # 0)
    => /\ cb[p].decoded = "customer_data"
       /\ cb[p].upsert = "called"
       /\ cb[p].user # 0
       /\ \A r \in SessionsOf(p) : r.user_id = cb[p].user
       /\ cb[p].cookie # 0 => (Responded(p) /\ SessionsOf(p) # {})

\* A run that did not end in the redirect to return_to.
Failed(p) == Responded(p) /\ cb[p].response # "return_to"

\* C17, as stated: no session without a verified identity, and a run in
\* which decode rejects, the upsert returns no user or a step raises ends
\* in a redirect to the login page, with no cookie and no session row.
C17_NoSessionWithoutIdentity_AsStated ==
    \A p \in Procs :
        /\ SessionOnlyAfterIdentity(p)
        /\ Failed(p)
           => /\ cb[p].response \in Redirects
              /\ cb[p].cookie = 0
              /\ SessionsOf(p) = {}

\* C17, amended: the same, except that the configuration error decode
\* raises for an empty secret is not caught: the run ends in a server
\* error, not a redirect, still with no cookie and no session row.
C17_NoSessionWithoutIdentity ==
    \A p \in Procs :
        /\ SessionOnlyAfterIdentity(p)
        /\ Failed(p)
           => /\ cb[p].response \in Redirects \cup {"500"}
              /\ cb[p].response = "500" <=> cb[p].decoded = "ValueError"
              /\ cb[p].decoded = "ValueError"
                 <=> (SHOPIFY_SSO_SECRET = <<>> /\ Render(cb[p].in) # <<>>)
              /\ cb[p].cookie = 0
              /\ SessionsOf(p) = {}

C17_Witness ==
    \E p \in Procs, q \in Procs :
        /\ cb[p].response = "return_to"
        /\ cb[p].cookie # 0
        /\ SessionsOf(p) # {}
        /\ cb[q].response = "/login?error=authentication_failed"
        /\ cb[q].session_token # 0
        /\ SessionsOf(q) = {}

\* C19: the users table has at most one row for an email, and the session
\* of every run that set a cookie names the row of the run's email.
C19_OneUserPerEmail ==
    /\ \A u \in users, v \in users : u.email = v.email => u = v
    /\ \A p \in Procs :
          cb[p].cookie # 0
          => \A r \in SessionsOf(p), u \in users :
                 u.email = cb[p].args.email => r.user_id = u.id

====
